---- MODULE Spec2Model ----
(***************************************************************************)
(* Answer verification, attempt throttling and hint dispensing of the      *)
(* scavenger-hunt API (api/src/server.js) over the schema of migrate.sql.   *)
(*                                                                         *)
(* server.js holds three versions of the server.  Versions 1 (lines 1-282) *)
(* and 2 (lines 284-518) have the same answer and hint handlers; version 3 *)
(* (lines 520-638) always builds a Redis client, has no try/catch around   *)
(* the rate limit and no identifier validation in the hint handler.  The   *)
(* variable `copy` says which version is running.                          *)
(*                                                                         *)
(* A JavaScript string is a sequence of one-character strings.             *)
(***************************************************************************)
EXTENDS Integers, Sequences, FiniteSets, TLC

VARIABLES
  copy,      \* the version of server.js that runs: 1 or 3 (2 has the handlers of 1)
  redis,     \* "null" when REDIS_URL is unset, else "client"
  rl,        \* the attempt counters in Redis: key -> [count, ttl]
  now,       \* the clock, in seconds
  stops,     \* the rows of table stops
  progress,  \* the rows of table progress
  req,       \* the requests in flight and their replies, by slot
  window     \* history: per key, the submissions counted in the current
             \* throttle window, those of them that the ceiling check let
             \* through, and the time the window ends

vars == <<copy, redis, rl, now, stops, progress, req, window>>

----------------------------------------------------------------------------
(* Bounds of the model *)

\* number of clock ticks a behaviour may take
MaxTicks == 2
\* seconds per clock tick
TickSeconds == 15
\* cap on an attempt counter in the shallow specification
ShallowTries == 1
\* cap on an attempt counter in the deep (throttle) specification
DeepTries == 27

\* longest stored answer of a plain credential the plain specification draws
MaxStored == 3
\* longest submitted answer the plain specification draws
MaxAnswer == 4

(* Program constants *)

\* redis.expire(key, 30)
WindowSeconds == 30
\* if (tries > 25)
Ceiling == 25

----------------------------------------------------------------------------
(* Strings *)

\* the value of a field the request body lacks
Undefined == <<"undefined">>

\* !v for a string or undefined
Falsy(v) == v = Undefined \/ v = <<>>

StartsWith(s, p) == Len(s) >= Len(p) /\ SubSeq(s, 1, Len(p)) = p

\* s.slice(n)
Slice(s, n) == SubSeq(s, n + 1, Len(s))

IsSpace(c) == c \in {" ", "\t"}

Lowercase == ("A" :> "a") @@ ("B" :> "b") @@ ("D" :> "d")

ToLowerCase(s) == [i \in 1..Len(s) |-> IF s[i] \in DOMAIN Lowercase THEN Lowercase[s[i]] ELSE s[i]]

RECURSIVE TrimStart(_)
TrimStart(s) == IF s # <<>> /\ IsSpace(Head(s)) THEN TrimStart(Tail(s)) ELSE s

RECURSIVE TrimEnd(_)
TrimEnd(s) == IF s # <<>> /\ IsSpace(s[Len(s)]) THEN TrimEnd(SubSeq(s, 1, Len(s) - 1)) ELSE s

Trim(s) == TrimEnd(TrimStart(s))

\* s.replace(/\s+/g, ' ')
RECURSIVE CollapseSpaces(_)
CollapseSpaces(s) ==
  IF s = <<>> THEN <<>>
  ELSE IF IsSpace(Head(s)) THEN <<" ">> \o CollapseSpaces(TrimStart(Tail(s)))
  ELSE <<Head(s)>> \o CollapseSpaces(Tail(s))

\* s.split(':')
RECURSIVE Split(_)
Split(s) ==
  IF \A i \in 1..Len(s) : s[i] # ":" THEN <<s>>
  ELSE LET k == CHOOSE i \in 1..Len(s) : s[i] = ":" /\ \A j \in 1..(i - 1) : s[j] # ":"
       IN <<SubSeq(s, 1, k - 1)>> \o Split(SubSeq(s, k + 1, Len(s)))

----------------------------------------------------------------------------
(* Answer verification *)

\* a normalization that does not collapse the whitespace inside the text
normalizeAnswerNoCollapse(s) == ToLowerCase(Trim(IF Falsy(s) THEN <<>> ELSE s))

\* String(s || '').trim().toLowerCase().replace(/\s+/g, ' ')
normalizeAnswer(s) == CollapseSpaces(ToLowerCase(Trim(IF Falsy(s) THEN <<>> ELSE s)))

\* crypto.scrypt(password, salt, 32) rendered in hex: a deterministic digest,
\* taken collision-free, that differs for different (password, salt)
ScryptHex(password, salt) == <<"#">> \o salt \o <<"$">> \o password

PlainTag == <<"p", "l", "a", "i", "n", ":">>
ScryptTag == <<"s", "c", "r", "y", "p", "t", ":">>

\* a verification without the check for a missing credential
verifyAnswerNoEmptyCheck(stored, input) ==
  IF StartsWith(stored, PlainTag)
    THEN IF Slice(stored, 6) = normalizeAnswer(input) THEN "true" ELSE "false"
  ELSE IF StartsWith(stored, ScryptTag)
    THEN LET parts == Split(stored)
         IN IF Len(parts) < 3 THEN "TypeError"
            ELSE IF parts[3] = ScryptHex(normalizeAnswer(input), parts[2]) THEN "true" ELSE "false"
  ELSE IF stored = normalizeAnswer(input) THEN "true" ELSE "false"

\* "true", "false", or "TypeError" when Buffer.from(undefined, 'hex') throws
verifyAnswer(stored, input) ==
  IF Falsy(stored) THEN "false"
  ELSE IF StartsWith(stored, PlainTag)
    THEN IF Slice(stored, 6) = normalizeAnswer(input) THEN "true" ELSE "false"
  ELSE IF StartsWith(stored, ScryptTag)
    THEN LET parts == Split(stored)
         IN IF Len(parts) < 3 THEN "TypeError"
            ELSE IF parts[3] = ScryptHex(normalizeAnswer(input), parts[2]) THEN "true" ELSE "false"
  ELSE IF stored = normalizeAnswer(input) THEN "true" ELSE "false"

----------------------------------------------------------------------------
(* Identifiers and tables (migrate.sql) *)

\* identifiers that are well-formed UUIDs; any other text makes Postgres
\* reject a comparison with a UUID column
R1 == <<"r", "1">>
R2 == <<"r", "2">>
R9 == <<"r", "9">>
S1 == <<"s", "1">>
S9 == <<"s", "9">>
Uuids == {R1, R2, R9, S1, S9}

\* SQL NULL (node-postgres sends undefined as NULL)
Null == <<"null">>

\* runs: two runs of the same team; R9 is no run
runs == {[id |-> R1, team_id |-> "t1"], [id |-> R2, team_id |-> "t1"]}

HintText == <<"h">>
HintPenalty == 10

\* stored credentials: plain:a b
CredPlain == PlainTag \o <<"a", " ", "b">>
\* scrypt:s:<digest of "a b" with salt "s">
CredScrypt == ScryptTag \o <<"s", ":">> \o ScryptHex(<<"a", " ", "b">>, <<"s">>)
\* scrypt:s  (no digest part)
CredScryptNoDigest == ScryptTag \o <<"s">>
\* an untagged value
CredUntagged == <<"a", " ", "b">>

\* submitted answers: "A  b " normalizes to "a b"; "ab" does not
AnswerRight == <<"A", " ", " ", "b", " ">>
AnswerWrong == <<"a", "b">>

\* rows of stops with id S1
StopRow(cred, hint) == [id |-> S1, answer_hash |-> cred, hint_markdown |-> hint, hint_penalty |-> HintPenalty]

\* the Redis key of the attempt counter
RlKey(runId, stopId) == <<"r", "l", ":">> \o runId \o <<":">> \o stopId

\* identifier texts that are no UUIDs and hold the separator of the key: the
\* handler checks only that an identifier is not empty
RunColon == <<"a", ":", "b">>
StopShort == <<"c">>
RunShort == <<"a">>
StopColon == <<"b", ":", "c">>

Keys == {RlKey(r, s) : r \in {R1, R2, R9}, s \in {S1, S9}} \cup {RlKey(RunColon, StopShort), RlKey(RunShort, StopColon)}

\* a key that does not exist: count 0, TTL -2; a key without expiry: TTL -1
NoKey == [count |-> 0, ttl |-> -2]

\* no submission counted, none let through, no end set
NoWindow == [n |-> 0, let |-> 0, end |-> -1]

\* the requests the runtime interleaves
Slots == {1, 2}

IdleReq == [pc |-> "idle", kind |-> "none", runId |-> Undefined, stopId |-> Undefined,
            answer |-> Undefined, tries |-> 0, ord |-> 0, rlimit |-> "none", st |-> <<>>, reply |-> "none"]

\* a slot that can take a new request
Free(q) == req[q].pc \in {"idle", "done"}

Done(q, reply) == [req EXCEPT ![q].pc = "done", ![q].reply = reply]

----------------------------------------------------------------------------
(* Queries *)

\* SELECT ... FROM stops WHERE id=$1: "error" when $1 is no UUID, else the rows
StopsById(stopId) ==
  IF stopId = Undefined THEN {}
  ELSE {s \in stops : s.id = stopId}

\* a text parameter that cannot be cast to UUID
BadUuid(v) == v # Undefined /\ v \notin Uuids

RunsById(runId) == IF runId = Undefined THEN {} ELSE {r \in runs : r.id = runId}

\* gen_random_uuid(): an id no row has
NewId(P) == CHOOSE n \in 1..(Cardinality(P) + 1) : \A p \in P : p.id # n

\* an insert without the ON CONFLICT clause, into a table without the UNIQUE constraint
InsertSolvedRow(P, teamId, stopId, t) ==
  P \cup {[id |-> NewId(P), team_id |-> teamId, stop_id |-> stopId, solved_at |-> <<t>>, used_hint |-> FALSE]}

\* INSERT INTO progress(team_id, stop_id, solved_at) SELECT team_id, $1, now() FROM runs WHERE id=$2
\* ON CONFLICT (team_id, stop_id) DO UPDATE SET solved_at=excluded.solved_at
UpsertSolvedRow(P, teamId, stopId, t) ==
  IF \E p \in P : p.team_id = teamId /\ p.stop_id = stopId
  THEN {IF p.team_id = teamId /\ p.stop_id = stopId THEN [p EXCEPT !.solved_at = <<t>>] ELSE p : p \in P}
  ELSE P \cup {[id |-> NewId(P), team_id |-> teamId, stop_id |-> stopId, solved_at |-> <<t>>, used_hint |-> FALSE]}

\* a hint upsert that replaces the whole row on conflict
ReplaceHintRow(P, teamId, stopId) ==
  {p \in P : ~(p.team_id = teamId /\ p.stop_id = stopId)}
    \cup {[id |-> NewId(P), team_id |-> teamId, stop_id |-> stopId, solved_at |-> <<>>, used_hint |-> TRUE]}

\* INSERT INTO progress(team_id, stop_id, used_hint) SELECT team_id, $1, true FROM runs WHERE id=$2
\* ON CONFLICT (team_id, stop_id) DO UPDATE SET used_hint=true
UpsertHintRow(P, teamId, stopId) ==
  IF \E p \in P : p.team_id = teamId /\ p.stop_id = stopId
  THEN {IF p.team_id = teamId /\ p.stop_id = stopId THEN [p EXCEPT !.used_hint = TRUE] ELSE p : p \in P}
  ELSE P \cup {[id |-> NewId(P), team_id |-> teamId, stop_id |-> stopId, solved_at |-> <<>>, used_hint |-> TRUE]}

\* the statement inserts one row per run the SELECT yields (none or one)
ProgressAfterSolved(P, runId, stopId, t) ==
  IF RunsById(runId) = {} THEN P
  ELSE UpsertSolvedRow(P, (CHOOSE r \in RunsById(runId) : TRUE).team_id, stopId, t)

ProgressAfterHint(P, runId, stopId) ==
  IF RunsById(runId) = {} THEN P
  ELSE UpsertHintRow(P, (CHOOSE r \in RunsById(runId) : TRUE).team_id, stopId)

----------------------------------------------------------------------------
(* POST /api/stops/answer *)

\* the handler up to its first await: validation, then the rate limit if there
\* is a Redis client
AnswerRequest(q, runId, stopId, answer) ==
  /\ Free(q)
  /\ LET r == [IdleReq EXCEPT !.kind = "answer", !.runId = runId, !.stopId = stopId, !.answer = answer]
     IN req' = [req EXCEPT ![q] =
                  IF Falsy(runId) \/ Falsy(stopId) THEN [r EXCEPT !.pc = "done", !.reply = "400"]
                  ELSE IF redis = "null" THEN [r EXCEPT !.pc = "lookup", !.rlimit = "absent"]
                  ELSE [r EXCEPT !.pc = "incr"]]
  /\ UNCHANGED <<copy, redis, rl, now, stops, progress, window>>

\* what follows a Redis command that raised: the catch block of versions 1 and 2
\* logs and goes on to the lookup; version 3 has no catch and the request fails
AfterRedisError(q) ==
  IF copy = 3 THEN [req EXCEPT ![q].pc = "done", ![q].reply = "500", ![q].rlimit = "raised"]
  ELSE [req EXCEPT ![q].pc = "lookup", ![q].rlimit = "raised"]

\* a ceiling check that denies the 25th attempt already
AfterTriesOffByOne(r, q, tries) ==
  IF tries >= Ceiling THEN [r EXCEPT ![q].pc = "done", ![q].reply = "429", ![q].tries = tries, ![q].rlimit = "denied"]
  ELSE [r EXCEPT ![q].pc = "lookup", ![q].tries = tries, ![q].rlimit = "passed"]

\* a ceiling check that sends the 429 and does not return
AfterTriesNoReturn(r, q, tries) ==
  IF tries > Ceiling THEN [r EXCEPT ![q].pc = "lookup", ![q].tries = tries, ![q].rlimit = "denied"]
  ELSE [r EXCEPT ![q].pc = "lookup", ![q].tries = tries, ![q].rlimit = "passed"]

\* a ceiling check that denies one attempt late
AfterTriesLate(r, q, tries) ==
  IF tries > Ceiling + 1 THEN [r EXCEPT ![q].pc = "done", ![q].reply = "429", ![q].tries = tries, ![q].rlimit = "denied"]
  ELSE [r EXCEPT ![q].pc = "lookup", ![q].tries = tries, ![q].rlimit = "passed"]

\* if (tries > 25) return reply.code(429)
AfterTries(r, q, tries) ==
  IF tries > Ceiling THEN [r EXCEPT ![q].pc = "done", ![q].reply = "429", ![q].tries = tries, ![q].rlimit = "denied"]
  ELSE [r EXCEPT ![q].pc = "lookup", ![q].tries = tries, ![q].rlimit = "passed"]

\* INCR key: a key that does not exist is created, without expiry
Incr(store, key) ==
  [store EXCEPT ![key] = [count |-> store[key].count + 1,
                          ttl |-> IF store[key].count = 0 THEN -1 ELSE store[key].ttl]]

\* an expiry that is never set
ExpireNever(store, key, seconds) == store

\* EXPIRE key seconds: sets the TTL of a key that exists
Expire(store, key, seconds) ==
  IF store[key].count > 0 THEN [store EXCEPT ![key].ttl = seconds] ELSE store

\* an increment after which every submission sets the expiry
RedisIncrAlwaysExpire(q, cap) ==
  /\ req[q].pc = "incr"
  /\ LET key == RlKey(req[q].runId, req[q].stopId)
         tries == rl[key].count + 1
     IN /\ rl[key].count < cap
        /\ rl' = Incr(rl, key)
        /\ req' = [req EXCEPT ![q].ord = window[key].n + 1, ![q].pc = "expire", ![q].tries = tries]
        /\ window' = [window EXCEPT ![key].n = @ + 1]
  /\ UNCHANGED <<copy, redis, now, stops, progress>>

\* const tries = await redis.incr(key)
RedisIncr(q, cap) ==
  /\ req[q].pc = "incr"
  /\ LET key == RlKey(req[q].runId, req[q].stopId)
         tries == rl[key].count + 1
     IN /\ rl[key].count < cap
        /\ rl' = Incr(rl, key)
        /\ LET r == [req EXCEPT ![q].ord = window[key].n + 1]
           IN req' = IF tries = 1 THEN [r EXCEPT ![q].pc = "expire", ![q].tries = tries]
                     ELSE AfterTries(r, q, tries)
        /\ window' = [window EXCEPT ![key].n = @ + 1,
                                    ![key].let = IF req'[q].pc = "lookup" THEN @ + 1 ELSE @]
  /\ UNCHANGED <<copy, redis, now, stops, progress>>

\* redis.incr raises (the store is unreachable)
RedisIncrRaises(q) ==
  /\ req[q].pc = "incr"
  /\ req' = AfterRedisError(q)
  /\ UNCHANGED <<copy, redis, rl, now, stops, progress, window>>

\* if (tries === 1) await redis.expire(key, 30)
RedisExpire(q) ==
  /\ req[q].pc = "expire"
  /\ LET key == RlKey(req[q].runId, req[q].stopId)
     IN /\ rl' = Expire(rl, key, WindowSeconds)
        /\ req' = AfterTries(req, q, req[q].tries)
        /\ window' = IF window[key].n > 0
                     THEN [window EXCEPT ![key].end = now + WindowSeconds,
                                         ![key].let = IF req'[q].pc = "lookup" THEN @ + 1 ELSE @]
                     ELSE window
  /\ UNCHANGED <<copy, redis, now, stops, progress>>

\* redis.expire raises: the counter stays as INCR left it
RedisExpireRaises(q) ==
  /\ req[q].pc = "expire"
  /\ req' = AfterRedisError(q)
  /\ UNCHANGED <<copy, redis, rl, now, stops, progress, window>>

\* the stop's credential is read and the answer verified
StopLookup(q) ==
  /\ req[q].pc = "lookup"
  /\ req' =
       IF BadUuid(req[q].stopId) THEN Done(q, "500")
       ELSE IF StopsById(req[q].stopId) = {} THEN Done(q, "404")
       ELSE LET st == CHOOSE s \in StopsById(req[q].stopId) : TRUE
                ok == verifyAnswer(st.answer_hash, req[q].answer)
            IN IF ok = "TypeError" THEN [req EXCEPT ![q].pc = "done", ![q].reply = "500", ![q].st = <<st>>]
               ELSE IF ok = "false" THEN [req EXCEPT ![q].pc = "done", ![q].reply = "correct:false", ![q].st = <<st>>]
               ELSE [req EXCEPT ![q].pc = "upsert", ![q].st = <<st>>]
  /\ UNCHANGED <<copy, redis, rl, now, stops, progress, window>>

\* the solved upsert and the reply { correct: true }
ProgressSolved(q) ==
  /\ req[q].pc = "upsert"
  /\ IF BadUuid(req[q].runId)
     THEN /\ req' = Done(q, "500")
          /\ progress' = progress
     ELSE /\ progress' = ProgressAfterSolved(progress, req[q].runId, req[q].stopId, now)
          /\ req' = Done(q, "correct:true")
  /\ UNCHANGED <<copy, redis, rl, now, stops, window>>

----------------------------------------------------------------------------
(* POST /api/stops/hint *)

\* a hint handler that goes through the rate limit of the answer handler
HintRequestLimited(q, runId, stopId) ==
  /\ Free(q)
  /\ req' = [req EXCEPT ![q] = [IdleReq EXCEPT !.kind = "hint", !.runId = runId, !.stopId = stopId,
                                               !.pc = IF Falsy(runId) \/ Falsy(stopId) THEN "done" ELSE "incr",
                                               !.reply = IF Falsy(runId) \/ Falsy(stopId) THEN "400" ELSE "none"]]
  /\ UNCHANGED <<copy, redis, rl, now, stops, progress, window>>

\* validation (versions 1 and 2 only) and the stop lookup
HintRequest(q, runId, stopId) ==
  /\ Free(q)
  /\ LET r == [IdleReq EXCEPT !.kind = "hint", !.runId = runId, !.stopId = stopId]
     IN req' = [req EXCEPT ![q] =
                  IF copy # 3 /\ (Falsy(runId) \/ Falsy(stopId)) THEN [r EXCEPT !.pc = "done", !.reply = "400"]
                  ELSE IF BadUuid(stopId) THEN [r EXCEPT !.pc = "done", !.reply = "500"]
                  ELSE IF StopsById(stopId) = {} THEN [r EXCEPT !.pc = "done", !.reply = "404"]
                  ELSE [r EXCEPT !.pc = "hintUpsert", !.st = <<CHOOSE s \in StopsById(stopId) : TRUE>>]]
  /\ UNCHANGED <<copy, redis, rl, now, stops, progress, window>>

\* the hint upsert and the reply { hint, penalty }
HintUpsert(q) ==
  /\ req[q].pc = "hintUpsert"
  /\ IF BadUuid(req[q].runId)
     THEN /\ req' = Done(q, "500")
          /\ progress' = progress
     ELSE /\ progress' = ProgressAfterHint(progress, req[q].runId, req[q].stopId)
          /\ req' = Done(q, "hint")
  /\ UNCHANGED <<copy, redis, rl, now, stops, window>>

----------------------------------------------------------------------------
(* The environment: time and the counter store *)

\* TickSeconds pass: TTLs run down and a key whose TTL is used up is gone
Tick ==
  /\ now < MaxTicks * TickSeconds
  /\ now' = now + TickSeconds
  /\ rl' = [k \in Keys |->
              IF rl[k].ttl < 0 THEN rl[k]
              ELSE IF rl[k].ttl - TickSeconds <= 0 THEN NoKey
              ELSE [rl[k] EXCEPT !.ttl = rl[k].ttl - TickSeconds]]
  /\ window' = [k \in Keys |->
                  IF window[k].end >= 0 /\ now' >= window[k].end THEN NoWindow ELSE window[k]]
  /\ UNCHANGED <<copy, redis, stops, progress, req>>

----------------------------------------------------------------------------
(* Specifications *)

Copies == {1, 3}

InitOver(tables) ==
  /\ copy \in Copies
  /\ redis \in (IF copy = 3 THEN {"client"} ELSE {"null", "client"})
  /\ rl = [k \in Keys |-> NoKey]
  /\ now = 0
  /\ stops \in tables
  /\ progress = {}
  /\ req = [q \in Slots |-> IdleReq]
  /\ window = [k \in Keys |-> NoWindow]

NextOver(slots, ids, answers, cap) ==
  \/ \E q \in slots, i \in ids, a \in answers : AnswerRequest(q, i[1], i[2], a)
  \/ \E q \in slots : RedisIncr(q, cap)
  \/ \E q \in slots : RedisIncrRaises(q)
  \/ \E q \in slots : RedisExpire(q)
  \/ \E q \in slots : RedisExpireRaises(q)
  \/ \E q \in slots : StopLookup(q)
  \/ \E q \in slots : ProgressSolved(q)
  \/ \E q \in slots, i \in ids : HintRequest(q, i[1], i[2])
  \/ \E q \in slots : HintUpsert(q)
  \/ Tick

\* requests with a known pair, an unknown run, an unknown stop, a missing identifier
Ids == {<<R1, S1>>, <<R9, S1>>, <<R1, S9>>, <<Undefined, S1>>, <<R1, Undefined>>, <<<<>>, S1>>}

\* stop S1 with a plain credential, without and with a hint text
Init == InitOver({{StopRow(CredPlain, Null)}, {StopRow(CredPlain, HintText)}})

Next == NextOver({1}, Ids, {AnswerRight, AnswerWrong}, ShallowTries)

Spec == Init /\ [][Next]_vars

\* two requests in flight, for two runs of one team at one stop, answers that verify
NextConc == NextOver(Slots, {<<R1, S1>>, <<R2, S1>>}, {AnswerRight}, ShallowTries)

SpecConc == Init /\ [][NextConc]_vars

\* one (run, stop) pair, its counter free to pass the ceiling
NextThrottle == NextOver({1}, {<<R1, S1>>, <<Undefined, S1>>}, {AnswerRight, AnswerWrong}, DeepTries)

SpecThrottle == Init /\ [][NextThrottle]_vars

\* stop S1 with each kind of stored credential
Credentials == {CredPlain, CredScrypt, CredScryptNoDigest, CredUntagged, <<>>}

InitCred == InitOver({{StopRow(c, HintText)} : c \in Credentials})

\* the answers submitted: one that normalizes to "a b", one that does not, none
CredAnswers == {AnswerRight, AnswerWrong, Undefined}

NextCred == NextOver({1}, {<<R1, S1>>}, CredAnswers, ShallowTries)

SpecCred == InitCred /\ [][NextCred]_vars

\* the characters of stored answers: a lowercase and an uppercase letter and
\* a space
StoredAlphabet == {"a", "A", " "}

\* the characters of submitted answers: an uppercase letter, a space and a tab
AnswerAlphabet == {"A", " ", "\t"}

\* the strings over an alphabet of length up to n
RECURSIVE TextsUpTo(_, _)
TextsUpTo(alphabet, n) ==
  IF n = 0 THEN {<<>>}
  ELSE LET T == TextsUpTo(alphabet, n - 1)
       IN T \cup {Append(t, c) : t \in {x \in T : Len(x) = n - 1}, c \in alphabet}

StoredTexts == TextsUpTo(StoredAlphabet, MaxStored)

\* the answers submitted, and a request without answer
AnswerTexts == TextsUpTo(AnswerAlphabet, MaxAnswer) \cup {Undefined}

\* version 1 without REDIS_URL; stop S1 with a credential plain:<text>
InitPlain ==
  /\ copy = 1
  /\ redis = "null"
  /\ rl = [k \in Keys |-> NoKey]
  /\ now = 0
  /\ stops \in {{StopRow(PlainTag \o t, Null)} : t \in StoredTexts}
  /\ progress = {}
  /\ req = [q \in Slots |-> IdleReq]
  /\ window = [k \in Keys |-> NoWindow]

NextPlain ==
  \/ \E a \in AnswerTexts : AnswerRequest(1, R1, S1, a)
  \/ StopLookup(1)
  \/ ProgressSolved(1)

SpecPlain == InitPlain /\ [][NextPlain]_vars

\* the counter store answering every command; two submissions in flight for
\* one (run, stop) pair, answers that do not verify
InitRace ==
  /\ copy \in Copies
  /\ redis = "client"
  /\ rl = [k \in Keys |-> NoKey]
  /\ now = 0
  /\ stops = {StopRow(CredPlain, Null)}
  /\ progress = {}
  /\ req = [q \in Slots |-> IdleReq]
  /\ window = [k \in Keys |-> NoWindow]

NextRace ==
  \/ \E q \in Slots : AnswerRequest(q, R1, S1, AnswerWrong)
  \/ \E q \in Slots : RedisIncr(q, DeepTries)
  \/ \E q \in Slots : RedisExpire(q)
  \/ \E q \in Slots : StopLookup(q)
  \/ Tick

SpecRace == InitRace /\ [][NextRace]_vars

\* pairs of identifiers the handler accepts: two pairs of UUIDs, and two pairs
\* of other texts
KeyIds == {<<R1, S1>>, <<R2, S1>>, <<RunColon, StopShort>>, <<RunShort, StopColon>>}

\* two submissions in flight, for any two of the pairs, the store answering
NextKeys ==
  \/ \E q \in Slots, i \in KeyIds : AnswerRequest(q, i[1], i[2], AnswerWrong)
  \/ \E q \in Slots : RedisIncr(q, ShallowTries + 1)
  \/ \E q \in Slots : RedisExpire(q)
  \/ \E q \in Slots : StopLookup(q)
  \/ Tick

SpecKeys == InitRace /\ [][NextKeys]_vars

----------------------------------------------------------------------------
(* Claims *)

\* the key of the pair the throttle specification submits for
K11 == RlKey(R1, S1)

\* the submission went on from the rate limit to the credential lookup
LetThrough(q) ==
  \/ req[q].pc \in {"expire", "lookup", "upsert"}
  \/ req[q].pc = "done" /\ req[q].reply \in {"404", "500", "correct:true", "correct:false"}

\* C1: with the counter store answering, a submission that is the n-th of its
\* (run, stop) pair in the current 30-second window is let through to the
\* verification when n <= 25 and is answered 429 when n > 25; the count starts
\* again at 1 once the window has ended.
C1_MonotonicThrottle ==
  \A q \in Slots :
    (req[q].ord > 0 /\ req[q].rlimit # "raised") =>
      /\ req[q].ord <= Ceiling => LetThrough(q)
      /\ req[q].ord > Ceiling => (req[q].pc = "done" /\ req[q].reply = "429")

\* the 26th submission of a window has been denied
C1_Witness ==
  \E q \in Slots : req[q].ord = Ceiling + 1 /\ req[q].reply = "429" /\ window[K11].n = Ceiling + 1

\* the identifiers are present and a row is missing for one of them
Unknown(q) ==
  /\ ~Falsy(req[q].runId) /\ ~Falsy(req[q].stopId)
  /\ (RunsById(req[q].runId) = {} \/ StopsById(req[q].stopId) = {})

\* C2: a submission whose rate limit found no counter store, or whose Redis
\* command raised, is neither answered 429 nor failed with 500: it goes on to
\* the lookup and the verification.
C2_FailOpen ==
  \A q \in Slots :
    req[q].rlimit \in {"absent", "raised"} => (LetThrough(q) /\ req[q].reply # "500")

\* C3: an answer submission for a run or a stop that has no row is not answered
\* { correct: true } or { correct: false }.
C3_NotFoundSurfaced ==
  \A q \in Slots :
    (req[q].kind = "answer" /\ Unknown(q)) => req[q].reply \notin {"correct:true", "correct:false"}

\* C4: the progress table holds at most one row per (team, stop).
C4_OneRowPerTeamStop ==
  \A p1, p2 \in progress :
    (p1.team_id = p2.team_id /\ p1.stop_id = p2.stop_id) => p1 = p2

\* two correct submissions, for two runs of the team, are both about to upsert
\* while the hint upsert has made the row
C4_Witness ==
  /\ req[1].pc = "upsert" /\ req[2].pc = "upsert" /\ req[1].runId # req[2].runId
  /\ \E p \in progress : p.used_hint

\* a request's solved upsert, and its hint upsert, is the step being taken
SolvedStep == \E q \in Slots : req[q].pc = "upsert" /\ req'[q].pc = "done"
HintStep == \E q \in Slots : req[q].pc = "hintUpsert" /\ req'[q].pc = "done"

\* C5: every step keeps every progress row, with solved_at still set when it
\* was set and used_hint still true when it was true; the solved upsert leaves
\* used_hint as it was and the hint upsert leaves solved_at as it was.
C5_FlagsPreserved ==
  [][\A p \in progress : \E n \in progress' :
        /\ n.id = p.id /\ n.team_id = p.team_id /\ n.stop_id = p.stop_id
        /\ (p.solved_at # <<>> => n.solved_at # <<>>)
        /\ (p.used_hint => n.used_hint)
        /\ (SolvedStep => n.used_hint = p.used_hint)
        /\ (HintStep => n.solved_at = p.solved_at)]_vars

\* a row that is solved and has its hint used, after a correct answer and a hint
C5_Witness ==
  /\ \E p \in progress : p.solved_at # <<>> /\ p.used_hint
  /\ \E q \in Slots : req[q].reply = "correct:true"
  /\ \E q \in Slots : req[q].reply = "hint"

\* C6: a hint request answered { hint, penalty } leaves a progress row of the
\* run's team and the stop with used_hint true.
C6_HintRecorded ==
  \A q \in Slots :
    (req[q].kind = "hint" /\ req[q].reply = "hint") =>
      \E p \in progress : /\ p.stop_id = req[q].stopId /\ p.used_hint
                          /\ \E r \in RunsById(req[q].runId) : r.team_id = p.team_id

\* C7: an answer submission that got past the rate limit, for a stop that
\* exists, and that does not verify true is answered { correct: false }.
C7_WrongAnswer ==
  \A q \in Slots :
    (/\ req[q].kind = "answer" /\ req[q].pc = "done" /\ req[q].st # <<>>
     /\ verifyAnswer(req[q].st[1].answer_hash, req[q].answer) # "true")
      => req[q].reply = "correct:false"

\* C8: a throttled submission is answered 429 and nothing else, without a
\* credential lookup, and the step that throttles it leaves the progress
\* table as it was.
C8_ThrottledFailsFast ==
  /\ [](\A q \in Slots : req[q].rlimit = "denied" =>
          (req[q].pc = "done" /\ req[q].reply = "429" /\ req[q].st = <<>>))
  /\ [][\A q \in Slots : (req[q].rlimit # "denied" /\ req'[q].rlimit = "denied") => progress' = progress]_vars

\* a throttled submission whose answer verifies against the stop's credential
C8_Witness ==
  \E q \in Slots, s \in stops :
    /\ req[q].reply = "429" /\ req[q].stopId = s.id
    /\ verifyAnswer(s.answer_hash, req[q].answer) = "true"
    /\ RunsById(req[q].runId) # {}

\* C9: a request that lacks runId or stopId is answered 400 at once.
C9_Validation ==
  \A q \in Slots :
    (req[q].kind # "none" /\ (req[q].runId = Undefined \/ req[q].stopId = Undefined)) =>
      (req[q].pc = "done" /\ req[q].reply = "400")

\* C10: a hint request is never in the rate limit, has no attempt count and
\* is never answered 429, and no step of a hint request changes a counter.
C10_HintsNotLimited ==
  /\ [](\A q \in Slots : req[q].kind = "hint" =>
          /\ req[q].pc \notin {"incr", "expire"}
          /\ req[q].tries = 0 /\ req[q].ord = 0 /\ req[q].rlimit = "none"
          /\ req[q].reply # "429")
  /\ [][(\E q \in Slots : req'[q] # req[q] /\ req'[q].kind = "hint") => rl' = rl]_vars

\* a hint is given while the pair's counter is past the ceiling
C10_Witness ==
  \E q \in Slots : req[q].kind = "hint" /\ req[q].reply = "hint" /\ rl[K11].count > Ceiling

\* C11: a stop whose stored credential is missing or empty is never solved:
\* verifyAnswer is false for every input, every answered submission for the
\* stop is answered { correct: false }, and no progress row of the stop has
\* solved_at set.
C11_EmptyNeverSolved ==
  \A s \in stops :
    Falsy(s.answer_hash) =>
      /\ \A a \in CredAnswers : verifyAnswer(s.answer_hash, a) = "false" /\ verifyAnswer(Undefined, a) = "false"
      /\ \A q \in Slots : (req[q].kind = "answer" /\ req[q].st = <<s>> /\ req[q].pc = "done") => req[q].reply = "correct:false"
      /\ \A q \in Slots : req[q].pc # "upsert"
      /\ \A p \in progress : p.stop_id = s.id => p.solved_at = <<>>

\* the stop has an empty credential and a progress row (from a hint), and a
\* submission without answer, which normalizes to the empty string, was refused
C11_Witness ==
  /\ \E s \in stops : s.answer_hash = <<>> /\ \E p \in progress : p.stop_id = s.id
  /\ \E q \in Slots : req[q].kind = "answer" /\ req[q].answer = Undefined /\ req[q].reply = "correct:false"

\* a text in normalized form: no uppercase letter, no whitespace but single
\* spaces between words
IsNormalized(s) ==
  /\ \A i \in 1..Len(s) : s[i] \notin DOMAIN Lowercase /\ s[i] # "\t"
  /\ s # <<>> => (s[1] # " " /\ s[Len(s)] # " ")
  /\ \A i \in 1..(Len(s) - 1) : ~(s[i] = " " /\ s[i + 1] = " ")

\* the words of a text: its maximal runs of characters that are no whitespace
RECURSIVE WordsOf(_)
WordsOf(s) ==
  LET t == TrimStart(s)
  IN IF t = <<>> THEN <<>>
     ELSE LET k == CHOOSE i \in 1..(Len(t) + 1) :
                     /\ i > Len(t) \/ IsSpace(t[i])
                     /\ \A j \in 1..(i - 1) : ~IsSpace(t[j])
          IN <<SubSeq(t, 1, k - 1)>> \o WordsOf(SubSeq(t, k, Len(t)))

RECURSIVE JoinWords(_)
JoinWords(ws) ==
  IF ws = <<>> THEN <<>>
  ELSE IF Len(ws) = 1 THEN ws[1]
  ELSE ws[1] \o <<" ">> \o JoinWords(Tail(ws))

\* trimmed, lowercased, each run of whitespace one space: the lowercased
\* words of the text joined by single spaces
Normalized(a) == JoinWords(WordsOf(ToLowerCase(IF a = Undefined THEN <<>> ELSE a)))

\* C12: for a credential plain:<answer> and a submitted input, verifyAnswer
\* is true, and the submission answered { correct: true }, exactly when
\* <answer> as stored equals the input trimmed, lowercased and with each run
\* of whitespace collapsed to one space; normalizeAnswer computes that text,
\* yields a text in normalized form and is idempotent; a stored answer in
\* normalized form is solved by itself, and a stop is only ever solved when its
\* stored answer is in normalized form.
C12_PlainVerify ==
  \A s \in stops :
    LET lit == Slice(s.answer_hash, 6)
    IN /\ \A q \in Slots :
            (req[q].kind = "answer" /\ req[q].st = <<s>>) =>
              LET a == req[q].answer
              IN /\ normalizeAnswer(a) = Normalized(a)
                 /\ IsNormalized(normalizeAnswer(a))
                 /\ normalizeAnswer(normalizeAnswer(a)) = normalizeAnswer(a)
                 /\ (verifyAnswer(s.answer_hash, a) = "true") <=> (lit = Normalized(a))
                 /\ req[q].pc = "upsert" => lit = Normalized(a)
                 /\ req[q].pc = "done" => (req[q].reply = "correct:true" <=> lit = Normalized(a))
                 /\ req[q].reply = "correct:true" => IsNormalized(lit)
       /\ IsNormalized(lit) <=> (verifyAnswer(s.answer_hash, lit) = "true")
       /\ (\E p \in progress : p.stop_id = s.id /\ p.solved_at # <<>>) => IsNormalized(lit)

\* a stored answer of two words is solved by an input with an uppercase
\* letter and a tab between the words
C12_Witness ==
  \E q \in Slots, s \in stops :
    /\ req[q].reply = "correct:true" /\ req[q].st = <<s>>
    /\ \E i \in 1..Len(req[q].answer) : req[q].answer[i] = "\t"
    /\ \E i \in 1..Len(req[q].answer) : req[q].answer[i] = "A"
    /\ \E p \in progress : p.stop_id = s.id /\ p.solved_at # <<>>

\* a credential plain:<answer>, or scrypt:<salt>:<hex-digest> with a salt and a digest
WellFormed(c) ==
  \/ StartsWith(c, PlainTag)
  \/ StartsWith(c, ScryptTag) /\ Len(Split(c)) = 3 /\ Split(c)[2] # <<>> /\ Split(c)[3] # <<>>

\* C13: for a stop whose stored credential is not empty and not well formed,
\* verifyAnswer does not raise on a submitted answer: the submission is
\* answered { correct: true } when the whole stored value equals the
\* normalized answer and { correct: false } otherwise, never 500.
C13_MalformedNoRaise ==
  \A s \in stops :
    (~Falsy(s.answer_hash) /\ ~WellFormed(s.answer_hash)) =>
      \A q \in Slots :
        (req[q].kind = "answer" /\ req[q].st = <<s>> /\ req[q].pc = "done") =>
          /\ verifyAnswer(s.answer_hash, req[q].answer) # "TypeError"
          /\ req[q].reply = (IF s.answer_hash = normalizeAnswer(req[q].answer)
                             THEN "correct:true" ELSE "correct:false")

\* the increment of a submission's counter is the step being taken
IncrStep(q) == req[q].pc = "incr" /\ req'[q].pc # "incr"

\* C14: with the counter store answering, under every interleaving of the
\* submissions of one (run, stop) pair: the count a submission observes is its
\* position in the order of the increments of the counter's lifetime, so the
\* counts are distinct and strictly increasing; every increment observes a
\* count above the one the counter held; a submission is let through only
\* with a count of at most 25, and at most 25 are let through in the lifetime
\* of a counter.
C14_AtomicCount ==
  /\ [](\A q \in Slots : req[q].tries > 0 =>
          /\ req[q].tries = req[q].ord
          /\ req[q].rlimit = "passed" => req[q].tries <= Ceiling
          /\ req[q].rlimit = "denied" => req[q].tries > Ceiling)
  /\ [](\A k \in Keys : /\ window[k].n = rl[k].count
                         /\ window[k].let <= Ceiling
                         /\ window[k].let <= window[k].n)
  /\ [][\A q \in Slots : IncrStep(q) =>
          LET k == RlKey(req[q].runId, req[q].stopId)
          IN /\ req'[q].tries = rl[k].count + 1
             /\ rl'[k].count = req'[q].tries
             /\ \A o \in Slots \ {q} : req'[o] = req[o]]_vars

\* the 25th submission of the pair is still in flight, let through, while the
\* 26th, which started later, has been denied
C14_Witness ==
  /\ req[1].pc = "lookup" /\ req[1].tries = Ceiling /\ req[1].rlimit = "passed"
  /\ req[2].reply = "429" /\ req[2].tries = Ceiling + 1
  /\ window[K11].let = Ceiling /\ rl[K11].count = Ceiling + 1

\* C15: a step raises the time to live of a counter only when it is the
\* expire command of the submission that observed count 1, on a counter that
\* had no expiry yet, and it sets 30 seconds; from then on the counter's
\* remaining life only runs down to the end fixed at that moment, whatever
\* is submitted, and the counter is gone when that end is reached.
C15_ExpirySetOnce ==
  /\ [][\A k \in Keys :
          (rl[k].count > 0 /\ rl'[k].count > 0 /\ rl'[k].ttl > rl[k].ttl) =>
            /\ rl[k].ttl = -1 /\ rl'[k].ttl = WindowSeconds
            /\ \E q \in Slots : /\ req[q].pc = "expire" /\ req'[q].pc # "expire"
                                 /\ req[q].tries = 1
                                 /\ RlKey(req[q].runId, req[q].stopId) = k]_vars
  /\ [](\A k \in Keys : rl[k].ttl >= 0 =>
          /\ window[k].end = now + rl[k].ttl
          /\ rl[k].ttl <= WindowSeconds)
  /\ [](\A k \in Keys : window[k].end >= 0 => (now < window[k].end /\ rl[k].ttl >= 0))

\* the pair was throttled and kept submitting; 30 seconds after the expiry
\* was set, a submission of the pair is the first of a new counter and is let
\* through
C15_Witness ==
  /\ req[1].reply = "429" /\ req[1].tries = Ceiling + 2
  /\ req[2].tries = 1 /\ req[2].rlimit = "passed"
  /\ rl[K11].count = 1 /\ now = WindowSeconds

\* C16: every counter that exists in the store has an expiry, or the expire
\* command of the submission that created it is still to come.
C16_EveryCounterExpires ==
  \A k \in Keys :
    rl[k].count > 0 =>
      \/ rl[k].ttl >= 0
      \/ \E q \in Slots : req[q].pc = "expire" /\ RlKey(req[q].runId, req[q].stopId) = k

\* the request's identifiers passed the handler's validation
Accepted(q) == req[q].kind = "answer" /\ req[q].reply # "400"

PairOf(q) == <<req[q].runId, req[q].stopId>>

\* C17: the increment of an accepted submission's counter leaves the counter
\* of every other accepted submission for a different (run, stop) pair as it
\* was (the two pairs have different counter keys).
C17_KeysIndependent ==
  [][\A q, o \in Slots :
        (IncrStep(q) /\ Accepted(o) /\ PairOf(q) # PairOf(o)) =>
          rl'[RlKey(req[o].runId, req[o].stopId)] = rl[RlKey(req[o].runId, req[o].stopId)]]_vars

====
